---- MODULE Spec2Model ----
(***************************************************************************)
(* Commit-readiness workflow of adaptivekind/skills                        *)
(* (skills/commit/scripts/pre-commit.py), the repository queries it uses   *)
(* (common/git/git.py, skills/commit/scripts/uncommitted-changes.py) and   *)
(* the git repository it runs against.                                     *)
(*                                                                         *)
(* Text is modelled as a sequence of one-character strings, so that the    *)
(* string operations of the scripts (strip, split, startswith, regular     *)
(* expressions, os.path) are computed and not assumed.                     *)
(***************************************************************************)
EXTENDS Integers, Sequences, FiniteSets, TLC

(***************************************************************************)
(* Bounds of the model.                                                    *)
(***************************************************************************)
\* number of workflow runs in one behaviour
MaxRuns == 2
\* number of midnights the clock may pass in one behaviour
MaxDay == 1
\* number of runs of cost-check.py in one behaviour
MaxChecks == 3

(***************************************************************************)
(* Text literals.                                                          *)
(***************************************************************************)
S_empty == << >>
S_main == <<"m", "a", "i", "n">>
S_master == <<"m", "a", "s", "t", "e", "r">>
S_Main == <<"M", "a", "i", "n">>
S_feature_x == <<"f", "e", "a", "t", "u", "r", "e", "/", "x">>
S_initial == <<"i", "n", "i", "t", "i", "a", "l">>
S_sha == <<"a", "1", "b", "2", "c", "3", "d">>
S_skill == <<"s", "k", "i", "l", "l">>
S_test == <<"t", "e", "s", "t">>
S_docs == <<"d", "o", "c", "s">>
S_update == <<"u", "p", "d", "a", "t", "e">>
S_skills_slash == <<"s", "k", "i", "l", "l", "s", "/">>
S_dot_test_dot == <<".", "t", "e", "s", "t", ".">>
S_dot_spec_dot == <<".", "s", "p", "e", "c", ".">>
S_docs_slash == <<"d", "o", "c", "s", "/">>
S_README == <<"R", "E", "A", "D", "M", "E">>
S_CHANGELOG == <<"C", "H", "A", "N", "G", "E", "L", "O", "G">>
S_detached_marker == <<"(", "H", "E", "A", "D", " ", "d", "e", "t", "a", "c", "h", "e", "d">>
S_detached_at == <<"(", "H", "E", "A", "D", " ", "d", "e", "t", "a", "c", "h", "e", "d", " ", "a", "t", " ">>
S_email == <<"t", "@", "e", ".", "c", "o">>
S_key == <<"1", "2", "3", "4">>
S_None == <<"N", "o", "n", "e">>
S_bad_name == <<"a", " ", "b">>

\* paths of the working tree
P_skills_foo_bar == <<"s", "k", "i", "l", "l", "s", "/", "f", "o", "o", "/", "b", "a", "r", ".", "t", "x", "t">>
P_app_test == <<"a", "p", "p", ".", "t", "e", "s", "t", ".", "j", "s">>
P_src_readme == <<"s", "r", "c", "/", "R", "E", "A", "D", "M", "E", ".", "m", "d">>
P_random == <<"r", "a", "n", "d", "o", "m", ".", "t", "x", "t">>
P_new == <<"n", "e", "w", ".", "t", "x", "t">>
P_underscore == <<"_", ".", "m", "d">>
P_docs_guide == <<"d", "o", "c", "s", "/", "g", "u", "i", "d", "e", ".", "m", "d">>

\* further paths, for the classifier and the name generator called on their own
P_skills_app_test == <<"s", "k", "i", "l", "l", "s", "/", "a", "p", "p", ".", "t", "e", "s", "t", ".", "j", "s">>
P_skills_x == <<"s", "k", "i", "l", "l", "s", "/", "x">>
P_readmes_old == <<"R", "E", "A", "D", "M", "E", "s", "-", "o", "l", "d", "/", "x", ".", "t", "x", "t">>
P_docs_readme == <<"d", "o", "c", "s", "/", "R", "E", "A", "D", "M", "E", ".", "m", "d">>
P_docs_dir == <<"d", "o", "c", "s", "/">>
P_changelog == <<"C", "H", "A", "N", "G", "E", "L", "O", "G">>
P_dir_underscore == <<"_", "/", "_", ".", "m", "d">>
P_ab_underscore == <<"a", "-", "B", "/", "_", ".", "m", "d">>

(***************************************************************************)
(* Python string operations used by the scripts.                           *)
(***************************************************************************)
Min(S) == CHOOSE x \in S : \A y \in S : x <= y
Max(S) == CHOOSE x \in S : \A y \in S : x >= y

\* str.startswith(prefix)
StartsWith(s, p) == Len(s) >= Len(p) /\ SubSeq(s, 1, Len(p)) = p

\* "p in s" for strings
Contains(s, p) == \E i \in 1..(Len(s) - Len(p) + 1) : SubSeq(s, i, i + Len(p) - 1) = p

IsSpace(c) == c \in {" ", "\n", "\t", "\r"}

\* str.strip()
Strip(s) ==
  LET idx == {i \in 1..Len(s) : ~IsSpace(s[i])}
  IN  IF idx = {} THEN << >> ELSE SubSeq(s, Min(idx), Max(idx))

\* str.split(sep) for a one-character separator: empty fields are kept
RECURSIVE Split(_, _)
Split(s, sep) ==
  LET idx == {i \in 1..Len(s) : s[i] = sep}
  IN  IF idx = {} THEN <<s>>
      ELSE <<SubSeq(s, 1, Min(idx) - 1)>> \o Split(SubSeq(s, Min(idx) + 1, Len(s)), sep)

\* str.rfind(c) + 1: position of the last c, 0 when there is none
RFind(s, c) ==
  LET idx == {i \in 1..Len(s) : s[i] = c}
  IN  IF idx = {} THEN 0 ELSE Max(idx)

UpperCase == <<"A", "B", "C", "D", "E", "F", "G", "H", "I", "J", "K", "L", "M",
               "N", "O", "P", "Q", "R", "S", "T", "U", "V", "W", "X", "Y", "Z">>
LowerCase == <<"a", "b", "c", "d", "e", "f", "g", "h", "i", "j", "k", "l", "m",
               "n", "o", "p", "q", "r", "s", "t", "u", "v", "w", "x", "y", "z">>
DigitChars == <<"0", "1", "2", "3", "4", "5", "6", "7", "8", "9">>

LowerChar(c) ==
  IF \E i \in 1..26 : UpperCase[i] = c
  THEN LowerCase[CHOOSE i \in 1..26 : UpperCase[i] = c]
  ELSE c

\* str.lower()
Lower(s) == [i \in 1..Len(s) |-> LowerChar(s[i])]

IsLowerAlnum(c) ==
  \/ \E i \in 1..26 : LowerCase[i] = c
  \/ \E i \in 1..10 : DigitChars[i] = c

\* faulty variant of re_sub_non_alnum: the pattern r'[^a-z0-9_-]' keeps
\* dashes and underscores
re_sub_non_alnum_keep_dash(s) == SelectSeq(s, LAMBDA c : IsLowerAlnum(c) \/ c \in {"-", "_"})

\* re.sub(r'[^a-z0-9]', '', s)
re_sub_non_alnum(s) == SelectSeq(s, IsLowerAlnum)

\* os.path.dirname
os_path_dirname(p) ==
  LET k == RFind(p, "/")
      head == SubSeq(p, 1, k)
      keep == {i \in 1..Len(head) : head[i] # "/"}
  IN  IF keep = {} THEN head ELSE SubSeq(head, 1, Max(keep))

\* os.path.basename
os_path_basename(p) == SubSeq(p, RFind(p, "/") + 1, Len(p))

\* os.path.splitext(p)[0]: the extension starts at the last dot, leading dots
\* of the file name do not start an extension
os_path_splitext_root(p) ==
  LET sepIndex == RFind(p, "/")
      dotIndex == RFind(p, ".")
  IN  IF /\ dotIndex > sepIndex
         /\ \E f \in (sepIndex + 1)..(dotIndex - 1) : p[f] # "."
      THEN SubSeq(p, 1, dotIndex - 1)
      ELSE p

\* a date of the local calendar
Date(y, m, d) == [year |-> y, month |-> m, day |-> d]

RECURSIVE ZeroPad(_, _)
ZeroPad(n, width) ==
  IF width = 0 THEN << >>
  ELSE ZeroPad(n \div 10, width - 1) \o <<DigitChars[(n % 10) + 1]>>

\* datetime.strftime('%Y%m%d')
strftime_Ymd(t) == ZeroPad(t.year, 4) \o ZeroPad(t.month, 2) \o ZeroPad(t.day, 2)

(***************************************************************************)
(* Optional values: None, or one value.                                    *)
(***************************************************************************)
None == << >>
Some(v) == <<v>>

\* Python truth value of an optional string: None and '' are false
Truthy(opt) == opt # None /\ opt[1] # << >>

(***************************************************************************)
(* The git repository and the git executable.                              *)
(*   head       Some(name) on a branch (born or unborn), None when detached*)
(*   branches   the branches that exist (an unborn branch does not)        *)
(*   email, signingkey   configuration values: None when unset, else       *)
(*                       Some(text), where the text may be empty           *)
(*   unstaged, staged, untracked   paths, in the order git reports them    *)
(***************************************************************************)
HasCommit(r) == r.head = None \/ r.head[1] \in r.branches

RECURSIVE SetToSeq(_)
SetToSeq(S) ==
  IF S = {} THEN << >>
  ELSE LET x == CHOOSE y \in S : TRUE IN <<x>> \o SetToSeq(S \ {x})

RECURSIVE JoinLines(_)
JoinLines(lines) ==
  IF lines = << >> THEN << >>
  ELSE Head(lines) \o <<"\n">> \o JoinLines(Tail(lines))

\* one line of "git branch" for an existing branch
BranchLine(r, b) ==
  (IF r.head = Some(b) THEN <<"*", " ">> ELSE <<" ", " ">>) \o b

\* standard output of "git branch"
BranchListing(r) ==
  LET names == SetToSeq(r.branches)
      lines == [i \in 1..Len(names) |-> BranchLine(r, names[i])]
      first == IF r.head = None
               THEN << <<"*", " ">> \o S_detached_at \o S_sha \o <<")">> >>
               ELSE << >>
  IN  JoinLines(first \o lines)

\* a completed git process: exit status and standard output
Proc(rc, stdout) == [rc |-> rc, stdout |-> stdout]

\* the git executable on repository r, for the read commands of the scripts
git(cmd, r) ==
  CASE cmd = "config user.email" ->
         IF r.email = None THEN Proc(1, << >>) ELSE Proc(0, r.email[1] \o <<"\n">>)
    [] cmd = "config user.signingkey" ->
         IF r.signingkey = None THEN Proc(1, << >>)
         ELSE Proc(0, r.signingkey[1] \o <<"\n">>)
    [] cmd = "branch --show-current" ->
         IF r.head = None THEN Proc(0, << >>) ELSE Proc(0, r.head[1] \o <<"\n">>)
    [] cmd = "branch" -> Proc(0, BranchListing(r))
    [] cmd = "rev-parse --short HEAD" ->
         IF HasCommit(r) THEN Proc(0, S_sha \o <<"\n">>) ELSE Proc(128, <<"H", "E", "A", "D", "\n">>)
    [] cmd = "diff --name-only" -> Proc(0, JoinLines(r.unstaged))
    [] cmd = "diff --cached --name-only" -> Proc(0, JoinLines(r.staged))
    [] cmd = "ls-files --others --exclude-standard" -> Proc(0, JoinLines(r.untracked))
    [] cmd = "diff --quiet" -> Proc(IF r.unstaged = << >> THEN 0 ELSE 1, << >>)
    [] cmd = "diff --cached --quiet" -> Proc(IF r.staged = << >> THEN 0 ELSE 1, << >>)

\* a command that fails for a reason outside the repository's state
\* (not a repository, lock held, ...) exits with status 128 and no output
Exec(cmd, r, fault) == IF fault THEN Proc(128, << >>) ELSE git(cmd, r)

\* git check-ref-format, as far as the names of the model need it
ValidBranchName(n) ==
  /\ n # << >>
  /\ \A i \in 1..Len(n) : n[i] \notin {" ", "~", "^", ":", "?", "*", "[", "\\"}
  /\ ~Contains(n, <<".", ".">>)
  /\ n[1] \notin {"-", "/"}
  /\ n[Len(n)] \notin {"/", "."}

\* a ref cannot be both a file and a directory of refs
RefConflict(n, bs) ==
  \E b \in bs : StartsWith(b, n \o <<"/">>) \/ StartsWith(n, b \o <<"/">>)

\* faulty variant of CheckoutNewBranchOk: as "git checkout -B n", which
\* takes over a branch that already exists
CheckoutNewBranchOk_reset(r, n) ==
  /\ ValidBranchName(n)
  /\ ~RefConflict(n, r.branches)

\* "git checkout -b n" succeeds
CheckoutNewBranchOk(r, n) ==
  /\ ValidBranchName(n)
  /\ n \notin r.branches
  /\ ~RefConflict(n, r.branches)

\* the process "git checkout -b n"; its output goes to the terminal
git_checkout_b(r, n, fault) ==
  IF fault \/ ~CheckoutNewBranchOk(r, n) THEN Proc(128, << >>) ELSE Proc(0, << >>)

\* the repository after a successful "git checkout -b n": HEAD moves to n,
\* which exists at once when HEAD has a commit and is unborn otherwise
CheckoutNewBranch(r, n) ==
  [r EXCEPT !.head = Some(n),
            !.branches = IF HasCommit(r) THEN r.branches \cup {n} ELSE r.branches]

(***************************************************************************)
(* pre-commit.py: the repository queries.                                  *)
(***************************************************************************)
\* run_git_command returns the stripped output, or raises CalledProcessError
run_git_command(proc) == [raised |-> proc.rc # 0, value |-> Strip(proc.stdout)]

\* faulty variant of run_git_command_nocapture: check=False, a failing
\* command does not raise
run_git_command_nocapture_nocheck(proc) == [raised |-> FALSE, value |-> None]

\* run_git_command(..., capture_output=False) returns None, or raises
run_git_command_nocapture(proc) == [raised |-> proc.rc # 0, value |-> None]

get_current_branch(proc) ==
  LET res == run_git_command(proc)
  IN  IF res.raised THEN None ELSE Some(res.value)

\* faulty variant of is_detached_head: the marker test is inverted
is_detached_head_inverted(proc) ==
  LET res == run_git_command(proc)
  IN  IF res.raised THEN TRUE
      ELSE IF res.value = << >> THEN TRUE
      ELSE ~Contains(res.value, S_detached_marker)

is_detached_head(proc) ==
  LET res == run_git_command(proc)
  IN  IF res.raised THEN TRUE
      ELSE IF res.value = << >> THEN TRUE
      ELSE Contains(res.value, S_detached_marker)

\* faulty variant of get_head_sha: no 'initial' when the query raises
get_head_sha_nodefault(proc) ==
  LET res == run_git_command(proc)
  IN  IF res.raised THEN << >>
      ELSE IF res.value # << >> THEN res.value ELSE S_initial

get_head_sha(proc) ==
  LET res == run_git_command(proc)
  IN  IF res.raised THEN S_initial
      ELSE IF res.value # << >> THEN res.value ELSE S_initial

get_changed_files(proc) ==
  LET res == run_git_command(proc)
  IN  IF res.raised THEN << >>
      ELSE IF res.value # << >> THEN Split(res.value, "\n") ELSE << >>

(***************************************************************************)
(* pre-commit.py: change classifier and branch-name generator.             *)
(***************************************************************************)
\* re.search(r'\.(test|spec)\.', f)
re_search_test_spec(f) == Contains(f, S_dot_test_dot) \/ Contains(f, S_dot_spec_dot)

\* re.match(r'^docs/|README|CHANGELOG', f): re.match tries every alternative
\* at the start of f only
re_match_docs(f) ==
  StartsWith(f, S_docs_slash) \/ StartsWith(f, S_README) \/ StartsWith(f, S_CHANGELOG)

\* faulty variant of detect_change_type: the rules are tried one after the
\* other over all the paths, so that a later path with an earlier rule wins
detect_change_type_by_rule(changed_files) ==
  LET AnyPath(Matches(_)) == \E i \in DOMAIN changed_files : Matches(changed_files[i])
      IsSkill(f) == StartsWith(f, S_skills_slash)
  IN  IF AnyPath(IsSkill) THEN S_skill
      ELSE IF AnyPath(re_search_test_spec) THEN S_test
      ELSE IF AnyPath(re_match_docs) THEN S_docs
      ELSE S_update

RECURSIVE detect_change_type(_)
detect_change_type(changed_files) ==
  IF changed_files = << >> THEN S_update
  ELSE LET f == Head(changed_files)
       IN  IF StartsWith(f, S_skills_slash) THEN S_skill
           ELSE IF re_search_test_spec(f) THEN S_test
           ELSE IF re_match_docs(f) THEN S_docs
           ELSE detect_change_type(Tail(changed_files))

\* f"{change_type}/{date_str}-{slug}"
FormatBranchName(change_type, date_str, slug) ==
  change_type \o <<"/">> \o date_str \o <<"-">> \o slug

\* faulty variant of generate_branch_name: the override is taken as the part
\* of the name after the category
generate_branch_name_prefixed(change_type, changed_files, branch_prefix, clock) ==
  IF Truthy(branch_prefix)
  THEN [name |-> change_type \o <<"/">> \o branch_prefix[1], reads |-> 0]
  ELSE [name |-> FormatBranchName(change_type, strftime_Ymd(clock[1]), S_update),
        reads |-> 1]

\* clock[i] is the date the i-th call of datetime.now() returns.  The result
\* is the name and the number of times the clock was read.
generate_branch_name(change_type, changed_files, branch_prefix, clock) ==
  IF Truthy(branch_prefix) THEN [name |-> branch_prefix[1], reads |-> 0]
  ELSE
    LET first_file == IF changed_files # << >> THEN changed_files[1] ELSE << >>
        dirname == os_path_dirname(first_file)
        filename == os_path_splitext_root(os_path_basename(first_file))
        segments == Split(dirname, "/")
        dirname_slug == IF dirname # << >>
                        THEN re_sub_non_alnum(Lower(segments[Len(segments)]))
                        ELSE << >>
        filename_slug == IF filename # << >>
                         THEN re_sub_non_alnum(Lower(filename))
                         ELSE << >>
    IN  IF first_file # << >> /\ filename_slug # << >>
        THEN [name |-> FormatBranchName(change_type, strftime_Ymd(clock[1]), filename_slug),
              reads |-> 1]
        ELSE IF first_file # << >> /\ dirname_slug # << >>
        THEN [name |-> FormatBranchName(change_type, strftime_Ymd(clock[1]), dirname_slug),
              reads |-> 1]
        ELSE IF first_file # << >>
        THEN [name |-> FormatBranchName(change_type, strftime_Ymd(clock[2]), S_update),
              reads |-> 2]
        ELSE [name |-> FormatBranchName(change_type, strftime_Ymd(clock[1]), S_update),
              reads |-> 1]

(***************************************************************************)
(* State.                                                                  *)
(*   repo       the git repository (configuration, refs, working tree)     *)
(*   now        the local calendar day, as days since the first day        *)
(*   pc         position of the pre-commit.py process                      *)
(*   argv       the optional command-line argument (branch_prefix)         *)
(*   local      the local variables of the run                             *)
(*   exit_code  exit status of the process, -1 while it runs               *)
(*   outcome    how the run ended                                          *)
(*   out        the messages printed, in order                             *)
(*   cmds       the git commands issued, in order                          *)
(*   faults     the positions in cmds of the commands that failed for a     *)
(*              reason outside the repository                              *)
(*   pre        the repository as the run found it                         *)
(*   hist       the runs that have ended, oldest first                     *)
(*   views      what the two has-changes predicates outside the workflow   *)
(*              (Git.has_changes, uncommitted-changes.py has_changes)      *)
(*              returned when they were last called, None before           *)
(*   call       the function of the scripts that a caller other than the   *)
(*              workflow (a test, an importing script) has called, with    *)
(*              its arguments and its result; NoCall when there is none    *)
(*   history_file   the file .stats-history.json of cost-check.py: missing, *)
(*              not JSON, JSON that is not a list, or a list of entries     *)
(*   checks     the runs of cost-check.py that have ended, oldest first     *)
(***************************************************************************)
VARIABLES repo, now, pc, argv, local, exit_code, outcome, out, cmds, faults, pre, hist,
          views, call, history_file, checks

vars == <<repo, now, pc, argv, local, exit_code, outcome, out, cmds, faults, pre, hist, views, call,
          history_file, checks>>

\* the day of the calendar, `day` days after 31 December 2026
DateOf(day) == IF day = 0 THEN Date(2026, 12, 31) ELSE Date(2027, 1, day)

Repo(head, branches, email, signingkey, unstaged, staged, untracked) ==
  [head |-> head, branches |-> branches, email |-> email, signingkey |-> signingkey,
   unstaged |-> unstaged, staged |-> staged, untracked |-> untracked]

\* HEAD and the existing branches of the repositories the runs start from:
\* freshly initialised (unborn main, unborn feature/x), on a protected
\* branch, on other branches, and detached
InitRefs ==
  { <<Some(S_main), {}>>,
    <<Some(S_feature_x), {}>>,
    <<Some(S_main), {S_main}>>,
    <<Some(S_master), {S_master, S_feature_x}>>,
    <<Some(S_Main), {S_Main}>>,
    <<Some(S_feature_x), {S_main, S_feature_x}>>,
    <<None, {S_main, S_feature_x}>> }

InitUnstaged ==
  { << >>, <<P_skills_foo_bar>>, <<P_app_test, P_skills_foo_bar>>, <<P_underscore>>,
    <<P_src_readme, P_docs_guide>> }

InitStaged == { << >>, <<P_random>> }

InitUntracked == { << >>, <<P_new>> }

\* a configuration key is unset, set to the empty text, or set
InitConfig(v) == { None, Some(<< >>), Some(v) }

InitRepos ==
  { Repo(refs[1], refs[2], e, k, u, s, n) :
      refs \in InitRefs, e \in InitConfig(S_email), k \in InitConfig(S_key),
      u \in InitUnstaged, s \in InitStaged, n \in InitUntracked }

\* the values of sys.argv[1]: absent, empty, a fresh name, an existing or
\* protected name, an invalid name
Overrides == { None, Some(<< >>), Some(S_feature_x), Some(S_master), Some(S_bad_name) }

NoLocals ==
  [user_email |-> << >>, signing_key |-> << >>, queried_branch |-> None,
   current_branch |-> None, label |-> << >>, detached |-> FALSE, path |-> "none",
   changed_files |-> << >>, change_type |-> << >>, branch_name |-> << >>,
   clock_reads |-> 0, has_unstaged |-> FALSE, has_staged |-> FALSE]

NoCall == [fn |-> "none"]

\* .stats-history.json does not exist
MissingFile == [kind |-> "missing"]

Init ==
  /\ repo \in InitRepos
  /\ now = 0
  /\ pc = "idle"
  /\ argv = None
  /\ local = NoLocals
  /\ exit_code = -1
  /\ outcome = "none"
  /\ out = << >>
  /\ cmds = << >>
  /\ faults = {}
  /\ pre = repo
  /\ hist = << >>
  /\ views = [git |-> None, report |-> None]
  /\ call = NoCall
  /\ history_file = MissingFile
  /\ checks = << >>

(***************************************************************************)
(* pre-commit.py: the workflow.                                            *)
(***************************************************************************)
\* main(), line 180: the process starts and reads its argument, in a
\* behaviour of at most maxRuns runs
main(maxRuns) ==
  /\ pc = "idle"
  /\ Len(hist) < maxRuns
  /\ \E a \in Overrides : argv' = a
  /\ pc' = "check_gpg_config"
  /\ local' = NoLocals
  /\ exit_code' = -1
  /\ outcome' = "none"
  /\ out' = << >>
  /\ cmds' = << >>
  /\ faults' = {}
  /\ pre' = repo
  /\ UNCHANGED <<repo, now, hist, views, call, history_file, checks>>

\* the positions, counted from the `base` commands issued before, of the
\* commands of `issued` whose flag in `flags` is set
FaultsAt(base, issued, flags) == {base + i : i \in {j \in 1..Len(issued) : flags[j]}}

\* faulty variant of SigningMissing: "and" in place of "or"
SigningMissing_and(user_email, signing_key) == user_email = << >> /\ signing_key = << >>

\* not user_email or not signing_key
SigningMissing(user_email, signing_key) == user_email = << >> \/ signing_key = << >>

\* check_gpg_config(): the second query is not issued when the first raises.
\* Here and below F is the set of the outside faults a command may meet:
\* BOOLEAN when any command may fail, {FALSE} when git answers from the
\* repository alone.
check_gpg_config(F) ==
  /\ pc = "check_gpg_config"
  /\ \E f1, f2 \in F :
       LET r1 == run_git_command(Exec("config user.email", repo, f1))
           r2 == run_git_command(Exec("config user.signingkey", repo, f2))
           raised == r1.raised \/ r2.raised
           user_email == IF raised THEN << >> ELSE r1.value
           signing_key == IF raised THEN << >> ELSE r2.value
           issued == IF r1.raised THEN <<"config user.email">>
                     ELSE <<"config user.email", "config user.signingkey">>
       IN  /\ cmds' = cmds \o issued
           /\ faults' = faults \cup FaultsAt(Len(cmds), issued, <<f1, f2>>)
           /\ local' = [local EXCEPT !.user_email = user_email, !.signing_key = signing_key]
           /\ IF SigningMissing(user_email, signing_key)
              THEN /\ out' = out \o <<"verifying", "gpg_error">>
                   /\ exit_code' = 1
                   /\ outcome' = "signing_failure"
                   /\ pc' = "exited"
              ELSE /\ out' = out \o <<"verifying", "gpg_ok">>
                   /\ pc' = "check_branch"
                   /\ UNCHANGED <<exit_code, outcome>>
  /\ UNCHANGED <<repo, now, argv, pre, hist, views, call, history_file, checks>>

\* faulty variant of IsProtected: the comparison ignores case
IsProtected_nocase(current_branch) ==
  current_branch # None /\ Lower(current_branch[1]) \in {S_main, S_master}

\* current_branch in ('main', 'master')
IsProtected(current_branch) ==
  current_branch # None /\ current_branch[1] \in {S_main, S_master}

\* faulty variant of NeedsNewBranch: detachment is not looked at
NeedsNewBranch_nodetach(current_branch, detached) == IsProtected(current_branch)

\* current_branch in ('main', 'master') or detached
NeedsNewBranch(current_branch, detached) == IsProtected(current_branch) \/ detached

\* the text f"{current_branch}" prints
Label(current_branch) == IF current_branch = None THEN S_None ELSE current_branch[1]

\* faulty variant of check_branch: on a branch that needs no new branch the
\* run starts over at the signing check instead of going on to check_changes
check_branch_restart(F) ==
  /\ pc = "check_branch"
  /\ \E f1, f2, f3 \in F :
       LET queried == get_current_branch(Exec("branch --show-current", repo, f1))
           detached == is_detached_head(Exec("branch", repo, f2))
           current_branch ==
             IF detached
             THEN Some(get_head_sha(Exec("rev-parse --short HEAD", repo, f3)))
             ELSE queried
           create == NeedsNewBranch(current_branch, detached)
           issued == <<"branch --show-current", "branch">>
                       \o (IF detached THEN <<"rev-parse --short HEAD">> ELSE << >>)
       IN  /\ cmds' = cmds \o issued
           /\ faults' = faults \cup FaultsAt(Len(cmds), issued, <<f1, f2, f3>>)
           /\ local' = [local EXCEPT !.queried_branch = queried,
                                     !.current_branch = current_branch,
                                     !.label = Label(current_branch),
                                     !.detached = detached,
                                     !.path = IF create THEN "CreatingBranch" ELSE "Skipped"]
           /\ out' = out \o (IF detached THEN <<"detached_notice">> ELSE << >>)
                         \o <<"current_branch">>
           /\ pc' = IF create THEN "create_branch" ELSE "check_gpg_config"
  /\ UNCHANGED <<repo, now, argv, exit_code, outcome, pre, hist, views, call, history_file, checks>>

\* check_branch(), lines 124-133: read the branch state and decide
check_branch(F) ==
  /\ pc = "check_branch"
  /\ \E f1, f2, f3 \in F :
       LET queried == get_current_branch(Exec("branch --show-current", repo, f1))
           detached == is_detached_head(Exec("branch", repo, f2))
           current_branch ==
             IF detached
             THEN Some(get_head_sha(Exec("rev-parse --short HEAD", repo, f3)))
             ELSE queried
           create == NeedsNewBranch(current_branch, detached)
           issued == <<"branch --show-current", "branch">>
                       \o (IF detached THEN <<"rev-parse --short HEAD">> ELSE << >>)
       IN  /\ cmds' = cmds \o issued
           /\ faults' = faults \cup FaultsAt(Len(cmds), issued, <<f1, f2, f3>>)
           /\ local' = [local EXCEPT !.queried_branch = queried,
                                     !.current_branch = current_branch,
                                     !.label = Label(current_branch),
                                     !.detached = detached,
                                     !.path = IF create THEN "CreatingBranch" ELSE "Skipped"]
           /\ out' = out \o (IF detached THEN <<"detached_notice">> ELSE << >>)
                         \o <<"current_branch">>
           /\ pc' = IF create THEN "create_branch" ELSE "check_changes"
  /\ UNCHANGED <<repo, now, argv, exit_code, outcome, pre, hist, views, call, history_file, checks>>

\* [f for f in get_changed_files() if f]
NonEmptyPaths(files) == SelectSeq(files, LAMBDA f : f # << >>)

\* faulty variant of create_branch: the changed paths are read with
\* "git diff HEAD --name-only", which lists the staged paths too
create_branch_all_changes(F) ==
  /\ pc = "create_branch"
  /\ \E f1, f2, f3 \in F, t1, t2 \in now..MaxDay :
       LET sha == get_head_sha(Exec("rev-parse --short HEAD", repo, f1))
           all_changes == [repo EXCEPT !.unstaged = repo.staged \o repo.unstaged]
           changed_files ==
             NonEmptyPaths(get_changed_files(Exec("diff --name-only", all_changes, f2)))
           change_type == detect_change_type(changed_files)
           gen == generate_branch_name(change_type, changed_files, argv,
                                       <<DateOf(t1), DateOf(t2)>>)
           branch_name == gen.name
           checkout == git_checkout_b(repo, branch_name, f3)
           raised == run_git_command_nocapture(checkout).raised
       IN  /\ t1 <= t2
           /\ now' = IF gen.reads = 0 THEN now ELSE IF gen.reads = 1 THEN t1 ELSE t2
           /\ cmds' = cmds \o <<"rev-parse --short HEAD", "diff HEAD --name-only",
                                "checkout -b">>
           /\ faults' = faults \cup FaultsAt(Len(cmds), <<1, 2, 3>>, <<f1, f2, f3>>)
           /\ local' = [local EXCEPT !.changed_files = changed_files,
                                     !.change_type = change_type,
                                     !.branch_name = branch_name,
                                     !.clock_reads = gen.reads]
           /\ repo' = IF checkout.rc = 0 THEN CheckoutNewBranch(repo, branch_name) ELSE repo
           /\ IF ~raised
              THEN /\ out' = out \o <<"creating_feature", "change_type", "creating_branch",
                                      "created">>
                   /\ pc' = "check_changes"
                   /\ UNCHANGED <<exit_code, outcome>>
              ELSE /\ out' = out \o <<"creating_feature", "change_type", "creating_branch",
                                      "traceback">>
                   /\ exit_code' = 1
                   /\ outcome' = "creation_failure"
                   /\ pc' = "exited"
  /\ UNCHANGED <<argv, pre, hist, views, call, history_file, checks>>

\* faulty variant of create_branch: the branch is created first and the
\* changed paths are read after it
create_branch_checkout_first(F) ==
  /\ pc = "create_branch"
  /\ \E f1, f2, f3 \in F, t1, t2 \in now..MaxDay :
       LET sha == get_head_sha(Exec("rev-parse --short HEAD", repo, f1))
           changed_files ==
             NonEmptyPaths(get_changed_files(Exec("diff --name-only", repo, f2)))
           change_type == detect_change_type(changed_files)
           gen == generate_branch_name(change_type, changed_files, argv,
                                       <<DateOf(t1), DateOf(t2)>>)
           branch_name == gen.name
           checkout == git_checkout_b(repo, branch_name, f3)
           raised == run_git_command_nocapture(checkout).raised
       IN  /\ t1 <= t2
           /\ now' = IF gen.reads = 0 THEN now ELSE IF gen.reads = 1 THEN t1 ELSE t2
           /\ cmds' = cmds \o <<"rev-parse --short HEAD", "checkout -b", "diff --name-only">>
           /\ faults' = faults \cup FaultsAt(Len(cmds), <<1, 2, 3>>, <<f1, f3, f2>>)
           /\ local' = [local EXCEPT !.changed_files = changed_files,
                                     !.change_type = change_type,
                                     !.branch_name = branch_name,
                                     !.clock_reads = gen.reads]
           /\ repo' = IF checkout.rc = 0 THEN CheckoutNewBranch(repo, branch_name) ELSE repo
           /\ IF ~raised
              THEN /\ out' = out \o <<"creating_feature", "change_type", "creating_branch",
                                      "created">>
                   /\ pc' = "check_changes"
                   /\ UNCHANGED <<exit_code, outcome>>
              ELSE /\ out' = out \o <<"creating_feature", "change_type", "creating_branch",
                                      "traceback">>
                   /\ exit_code' = 1
                   /\ outcome' = "creation_failure"
                   /\ pc' = "exited"
  /\ UNCHANGED <<argv, pre, hist, views, call, history_file, checks>>

\* check_branch(), lines 134-148: name the branch and create it.  A failing
\* checkout raises CalledProcessError, which nothing catches: the interpreter
\* prints the traceback and exits with status 1.
create_branch(F) ==
  /\ pc = "create_branch"
  /\ \E f1, f2, f3 \in F, t1, t2 \in now..MaxDay :
       LET sha == get_head_sha(Exec("rev-parse --short HEAD", repo, f1))
           changed_files ==
             NonEmptyPaths(get_changed_files(Exec("diff --name-only", repo, f2)))
           change_type == detect_change_type(changed_files)
           gen == generate_branch_name(change_type, changed_files, argv,
                                       <<DateOf(t1), DateOf(t2)>>)
           branch_name == gen.name
           checkout == git_checkout_b(repo, branch_name, f3)
           raised == run_git_command_nocapture(checkout).raised
       IN  /\ t1 <= t2
           /\ now' = IF gen.reads = 0 THEN now ELSE IF gen.reads = 1 THEN t1 ELSE t2
           /\ cmds' = cmds \o <<"rev-parse --short HEAD", "diff --name-only", "checkout -b">>
           /\ faults' = faults \cup FaultsAt(Len(cmds), <<1, 2, 3>>, <<f1, f2, f3>>)
           /\ local' = [local EXCEPT !.changed_files = changed_files,
                                     !.change_type = change_type,
                                     !.branch_name = branch_name,
                                     !.clock_reads = gen.reads]
           /\ repo' = IF checkout.rc = 0 THEN CheckoutNewBranch(repo, branch_name) ELSE repo
           /\ IF ~raised
              THEN /\ out' = out \o <<"creating_feature", "change_type", "creating_branch",
                                      "created">>
                   /\ pc' = "check_changes"
                   /\ UNCHANGED <<exit_code, outcome>>
              ELSE /\ out' = out \o <<"creating_feature", "change_type", "creating_branch",
                                      "traceback">>
                   /\ exit_code' = 1
                   /\ outcome' = "creation_failure"
                   /\ pc' = "exited"
  /\ UNCHANGED <<argv, pre, hist, views, call, history_file, checks>>

\* faulty variant of ChangesOutcome: staged changes are not looked at
ChangesOutcome_unstaged_only(has_unstaged, has_staged) ==
  IF ~has_unstaged
  THEN [outcome |-> "NothingToCommit", exit_code |-> 0, out |-> <<"no_changes">>]
  ELSE [outcome |-> "Ready", exit_code |-> 0, out |-> <<"ready", "next_steps">>]

\* faulty variant of ChangesOutcome: "nothing to commit" ends with status 1
ChangesOutcome_exit1(has_unstaged, has_staged) ==
  IF ~has_unstaged /\ ~has_staged
  THEN [outcome |-> "NothingToCommit", exit_code |-> 1, out |-> <<"no_changes">>]
  ELSE [outcome |-> "Ready", exit_code |-> 0, out |-> <<"ready", "next_steps">>]

\* check_changes(), lines 167-176: what the run reports and how it ends
ChangesOutcome(has_unstaged, has_staged) ==
  IF ~has_unstaged /\ ~has_staged
  THEN [outcome |-> "NothingToCommit", exit_code |-> 0, out |-> <<"no_changes">>]
  ELSE [outcome |-> "Ready", exit_code |-> 0, out |-> <<"ready", "next_steps">>]

\* faulty variant of check_changes: the script stages the changes itself
\* (git add -A) before it looks for them
check_changes_staging(F) ==
  /\ pc = "check_changes"
  /\ \E f1, f2 \in F :
       LET staged == [repo EXCEPT !.staged = repo.staged \o repo.unstaged \o repo.untracked,
                                  !.unstaged = << >>, !.untracked = << >>]
           has_unstaged == run_git_command(Exec("diff --quiet", staged, f1)).raised
           has_staged == run_git_command(Exec("diff --cached --quiet", staged, f2)).raised
           end == ChangesOutcome(has_unstaged, has_staged)
       IN  /\ repo' = staged
           /\ cmds' = cmds \o <<"add -A", "diff --quiet", "diff --cached --quiet">>
           /\ faults' = faults \cup FaultsAt(Len(cmds) + 1, <<1, 2>>, <<f1, f2>>)
           /\ local' = [local EXCEPT !.has_unstaged = has_unstaged,
                                     !.has_staged = has_staged]
           /\ out' = out \o <<"checking_changes">> \o end.out
           /\ outcome' = end.outcome
           /\ exit_code' = end.exit_code
           /\ pc' = "exited"
  /\ UNCHANGED <<now, argv, pre, hist, views, call, history_file, checks>>

\* check_changes(): "git diff --quiet" raises on any non-zero exit status
check_changes(F) ==
  /\ pc = "check_changes"
  /\ \E f1, f2 \in F :
       LET has_unstaged == run_git_command(Exec("diff --quiet", repo, f1)).raised
           has_staged == run_git_command(Exec("diff --cached --quiet", repo, f2)).raised
           end == ChangesOutcome(has_unstaged, has_staged)
       IN  /\ cmds' = cmds \o <<"diff --quiet", "diff --cached --quiet">>
           /\ faults' = faults \cup FaultsAt(Len(cmds), <<1, 2>>, <<f1, f2>>)
           /\ local' = [local EXCEPT !.has_unstaged = has_unstaged,
                                     !.has_staged = has_staged]
           /\ out' = out \o <<"checking_changes">> \o end.out
           /\ outcome' = end.outcome
           /\ exit_code' = end.exit_code
           /\ pc' = "exited"
  /\ UNCHANGED <<repo, now, argv, pre, hist, views, call, history_file, checks>>

\* what is kept of a run that has ended
RunRecord ==
  [argv |-> argv, pre |-> pre, post |-> repo, exit_code |-> exit_code,
   outcome |-> outcome, cmds |-> cmds, faults |-> faults,
   branch_name |-> local.branch_name, day |-> now]

\* the process has ended and its exit status is returned to the caller
ProcessExit ==
  /\ pc = "exited"
  /\ hist' = Append(hist, RunRecord)
  /\ pc' = "idle"
  /\ UNCHANGED <<repo, now, argv, local, exit_code, outcome, out, cmds, faults, pre, views, call, history_file, checks>>

(***************************************************************************)
(* The user and the calendar, between runs.                                *)
(***************************************************************************)
\* the user switches to another existing branch (git checkout <branch>)
UserSwitch ==
  /\ pc = "idle"
  /\ hist # << >>
  /\ \E b \in repo.branches :
       /\ repo.head # Some(b)
       /\ repo' = [repo EXCEPT !.head = Some(b)]
  /\ UNCHANGED <<now, pc, argv, local, exit_code, outcome, out, cmds, faults, pre, hist,
               views, call, history_file, checks>>

\* midnight passes
Midnight ==
  /\ pc = "idle"
  /\ hist # << >>
  /\ now < MaxDay
  /\ now' = now + 1
  /\ UNCHANGED <<repo, pc, argv, local, exit_code, outcome, out, cmds, faults, pre, hist,
               views, call, history_file, checks>>

(***************************************************************************)
(* The two has-changes predicates outside the workflow.                    *)
(***************************************************************************)
\* git.py, Git.diff_quiet: True when the command exits with status 0
Git_diff_quiet(proc) == proc.rc = 0

\* git.py, Git.has_changes
Git_has_changes(unstaged_proc, staged_proc) ==
  ~(Git_diff_quiet(unstaged_proc) /\ Git_diff_quiet(staged_proc))

\* git.py, Git._run with check=True: the completed process, or
\* CalledProcessError when the exit status is not 0
Git_run(proc) == [raised |-> proc.rc # 0, stdout |-> proc.stdout]

\* faulty variant of Git_branch_list: check=False, the output of a failed
\* command is returned
Git_branch_list_nocheck(proc) == Strip(proc.stdout)

\* git.py, Git.branch_list
Git_branch_list(proc) ==
  LET res == Git_run(proc)
  IN  IF res.raised THEN << >> ELSE Strip(res.stdout)

\* git.py, Git.is_detached_head
Git_is_detached_head(proc) ==
  LET result == Git_branch_list(proc)
  IN  IF result = << >> THEN TRUE ELSE Contains(result, S_detached_marker)

\* git.py, Git.rev_parse
Git_rev_parse(proc) ==
  LET res == Git_run(proc)
  IN  IF res.raised THEN << >> ELSE Strip(res.stdout)

\* faulty variant of Git_rev_parse_short_head: no 'initial' in place of ''
Git_rev_parse_short_head_raw(proc) == Git_rev_parse(proc)

\* git.py, Git.rev_parse_short_head
Git_rev_parse_short_head(proc) ==
  LET result == Git_rev_parse(proc)
  IN  IF result # << >> THEN result ELSE S_initial

\* faulty variant of Git_diff_name_only: the output is split without the
\* test for the empty text
Git_diff_name_only_split_always(proc) ==
  LET res == Git_run(proc)
  IN  IF res.raised THEN << >> ELSE Split(Strip(res.stdout), "\n")

\* git.py, Git.diff_name_only, whatever its cached and diff_filter arguments
Git_diff_name_only(proc) ==
  LET res == Git_run(proc)
      result == Strip(res.stdout)
  IN  IF res.raised THEN << >>
      ELSE IF result # << >> THEN Split(result, "\n") ELSE << >>

\* git.py, Git.ls_files_others
Git_ls_files_others(proc) ==
  LET res == Git_run(proc)
      result == Strip(res.stdout)
  IN  IF res.raised THEN << >>
      ELSE IF result # << >> THEN Split(result, "\n") ELSE << >>

\* uncommitted-changes.py, get_staged_files / get_unstaged_files /
\* get_untracked_files: the lines of the output, [] when it is empty
get_files(proc) ==
  LET res == run_git_command(proc)
  IN  IF res.raised THEN << >>
      ELSE IF res.value # << >> THEN Split(res.value, "\n") ELSE << >>

\* faulty variant of uncommitted_has_changes: untracked files are not counted
uncommitted_has_changes_tracked(unstaged_proc, staged_proc, untracked_proc) ==
  \/ get_files(unstaged_proc) # << >>
  \/ get_files(staged_proc) # << >>

\* uncommitted-changes.py, has_changes
uncommitted_has_changes(unstaged_proc, staged_proc, untracked_proc) ==
  \/ get_files(unstaged_proc) # << >>
  \/ get_files(staged_proc) # << >>
  \/ get_files(untracked_proc) # << >>

\* a caller asks Git.has_changes() about the repository
call_Git_has_changes(F) ==
  /\ pc = "idle"
  /\ views.git = None
  /\ \E f1, f2 \in F :
       views' = [views EXCEPT !.git =
                   Some(Git_has_changes(Exec("diff --quiet", repo, f1),
                                        Exec("diff --cached --quiet", repo, f2)))]
  /\ UNCHANGED <<repo, now, pc, argv, local, exit_code, outcome, out, cmds, faults, pre, hist,
               call, history_file, checks>>

\* uncommitted-changes.py runs up to its has_changes() test
call_uncommitted_has_changes(F) ==
  /\ pc = "idle"
  /\ views.report = None
  /\ \E f1, f2, f3 \in F :
       views' = [views EXCEPT !.report =
                   Some(uncommitted_has_changes(
                          Exec("diff --name-only", repo, f1),
                          Exec("diff --cached --name-only", repo, f2),
                          Exec("ls-files --others --exclude-standard", repo, f3)))]
  /\ UNCHANGED <<repo, now, pc, argv, local, exit_code, outcome, out, cmds, faults, pre, hist,
               call, history_file, checks>>

(***************************************************************************)
(* The functions of the scripts and of the Git class called on their own,  *)
(* by a caller other than the workflow, in a process of its own.           *)
(***************************************************************************)
\* the values of ChangeCategory, lines 71-76
Categories == {S_skill, S_test, S_docs, S_update}

CallPaths ==
  { P_skills_foo_bar, P_app_test, P_src_readme, P_random, P_new, P_underscore, P_docs_guide,
    P_skills_app_test, P_skills_x, P_readmes_old, P_docs_readme, P_docs_dir, P_changelog,
    P_dir_underscore, P_ab_underscore }

\* the path lists of the calls: no path, one path, two paths
PathLists ==
  {<< >>} \cup {<<p>> : p \in CallPaths} \cup {<<p, q>> : p, q \in CallPaths}

\* what a git command may print: nothing, white space only, branch listings
\* (on main, detached), a revision, the word git prints for an unborn HEAD,
\* path names, path names with an empty line between them
Outputs ==
  { << >>, <<"\n">>, <<" ", "\n", "\t">>,
    BranchListing([head |-> Some(S_main), branches |-> {S_main}]),
    BranchListing([head |-> None, branches |-> {S_main}]),
    S_sha \o <<"\n">>,
    <<"H", "E", "A", "D", "\n">>,
    JoinLines(<<P_random, P_new>>),
    P_random \o <<"\n", "\n">> \o P_new \o <<"\n">> }

ExitStatuses == {0, 1, 128}

\* the outcomes of a git command
ProcOutcomes == {Proc(rc, o) : rc \in ExitStatuses, o \in Outputs}

call_detect_change_type ==
  /\ pc = "idle" /\ hist = << >>
  /\ \E paths \in PathLists :
       call' = [fn |-> "detect_change_type", changed_files |-> paths,
                result |-> detect_change_type(paths)]
  /\ pc' = "called"
  /\ UNCHANGED <<repo, now, argv, local, exit_code, outcome, out, cmds, faults, pre, hist,
               views, history_file, checks>>

\* the clock is read at the call or later, a second read not before the first
call_generate_branch_name ==
  /\ pc = "idle" /\ hist = << >>
  /\ \E ct \in Categories, paths \in PathLists, o \in Overrides, t1, t2 \in now..MaxDay :
       LET clock == <<DateOf(t1), DateOf(t2)>>
           gen == generate_branch_name(ct, paths, o, clock)
       IN  /\ t1 <= t2
           /\ call' = [fn |-> "generate_branch_name", change_type |-> ct,
                       changed_files |-> paths, branch_prefix |-> o, clock |-> clock,
                       result |-> gen.name, reads |-> gen.reads]
           /\ now' = IF gen.reads = 0 THEN now ELSE IF gen.reads = 1 THEN t1 ELSE t2
  /\ pc' = "called"
  /\ UNCHANGED <<repo, argv, local, exit_code, outcome, out, cmds, faults, pre, hist, views, history_file, checks>>

\* both implementations, given the same outcome of "git branch"
call_is_detached_head ==
  /\ pc = "idle" /\ hist = << >>
  /\ \E proc \in ProcOutcomes :
       call' = [fn |-> "is_detached_head", proc |-> proc,
                result |-> [git |-> Git_is_detached_head(proc),
                            script |-> is_detached_head(proc)]]
  /\ pc' = "called"
  /\ UNCHANGED <<repo, now, argv, local, exit_code, outcome, out, cmds, faults, pre, hist,
               views, history_file, checks>>

\* both implementations, given the same outcome of "git rev-parse --short HEAD"
call_rev_parse_short_head ==
  /\ pc = "idle" /\ hist = << >>
  /\ \E proc \in ProcOutcomes :
       call' = [fn |-> "rev_parse_short_head", proc |-> proc,
                result |-> [git |-> Git_rev_parse_short_head(proc),
                            script |-> get_head_sha(proc)]]
  /\ pc' = "called"
  /\ UNCHANGED <<repo, now, argv, local, exit_code, outcome, out, cmds, faults, pre, hist,
               views, history_file, checks>>

\* the functions that return path lists
PathQueries ==
  { "Git.diff_name_only", "Git.ls_files_others", "get_staged_files", "get_unstaged_files",
    "get_untracked_files", "get_changed_files" }

PathQuery(fn, proc) ==
  CASE fn = "Git.diff_name_only" -> Git_diff_name_only(proc)
    [] fn = "Git.ls_files_others" -> Git_ls_files_others(proc)
    [] fn \in {"get_staged_files", "get_unstaged_files", "get_untracked_files"} ->
         get_files(proc)
    [] fn = "get_changed_files" -> get_changed_files(proc)

call_path_query ==
  /\ pc = "idle" /\ hist = << >>
  /\ \E fn \in PathQueries, proc \in ProcOutcomes :
       call' = [fn |-> fn, proc |-> proc, result |-> PathQuery(fn, proc)]
  /\ pc' = "called"
  /\ UNCHANGED <<repo, now, argv, local, exit_code, outcome, out, cmds, faults, pre, hist,
               views, history_file, checks>>

(***************************************************************************)
(* cost-check.py and common/stats/stats.py: the stats history.             *)
(* A stats dict and a history entry are functions from keys to values; an  *)
(* entry that another writer put in the file may lack keys.                *)
(***************************************************************************)
StatFields == {"total_cost_cents", "input_tokens", "output_tokens", "cache_read", "cache_write"}

\* d.get(key, default)
dict_get(d, key, default) == IF key \in DOMAIN d THEN d[key] ELSE default

\* entry.get("name") == name, for a name that is a string
name_is(entry, name) == "name" \in DOMAIN entry /\ entry.name = name

StatsOf(c, i, o, r, w) ==
  [total_cost_cents |-> c, input_tokens |-> i, output_tokens |-> o,
   cache_read |-> r, cache_write |-> w]

\* {"name": ..., "timestamp": ..., **current_stats}, lines 198-202
EntryOf(name, timestamp, stats) ==
  [name |-> name, timestamp |-> timestamp,
   total_cost_cents |-> stats.total_cost_cents, input_tokens |-> stats.input_tokens,
   output_tokens |-> stats.output_tokens, cache_read |-> stats.cache_read,
   cache_write |-> stats.cache_write]

\* the file holds the JSON text of a list of entries
ListFile(entries) == [kind |-> "list", entries |-> entries]

\* load_history(), lines 115-124: [] when the file is missing or is not
\* JSON, else whatever json.load returns (NotAList: a JSON value that is
\* no list, on which main() raises)
NotAList == [kind |-> "object"]

load_history(file) ==
  CASE file.kind = "missing" -> << >>
    [] file.kind = "corrupt" -> << >>
    [] file.kind = "object"  -> NotAList
    [] OTHER                 -> file.entries

\* save_history(), lines 127-130: the file is rewritten with the whole list
save_history(history) == ListFile(history)

\* faulty variant of get_last_stats_for_name: the history is read from the
\* oldest entry on
RECURSIVE get_last_stats_for_name_oldest(_, _)
get_last_stats_for_name_oldest(history, name) ==
  IF history = << >> THEN None
  ELSE IF name_is(Head(history), name) THEN Some(Head(history))
       ELSE get_last_stats_for_name_oldest(Tail(history), name)

\* get_last_stats_for_name(), lines 133-138: for entry in reversed(history)
RECURSIVE get_last_stats_for_name(_, _)
get_last_stats_for_name(history, name) ==
  IF history = << >> THEN None
  ELSE IF name_is(history[Len(history)], name) THEN Some(history[Len(history)])
       ELSE get_last_stats_for_name(SubSeq(history, 1, Len(history) - 1), name)

\* calculate_delta(), lines 141-159
calculate_delta(current, last) ==
  IF last = None
  THEN StatsOf(0, 0, 0, 0, 0)
  ELSE StatsOf(current.total_cost_cents - dict_get(last[1], "total_cost_cents", 0),
               current.input_tokens - dict_get(last[1], "input_tokens", 0),
               current.output_tokens - dict_get(last[1], "output_tokens", 0),
               current.cache_read - dict_get(last[1], "cache_read", 0),
               current.cache_write - dict_get(last[1], "cache_write", 0))

\* Stats.get_last_stats_for_name(), stats.py lines 107-113
RECURSIVE Stats_get_last_stats_for_name(_, _)
Stats_get_last_stats_for_name(history, name) ==
  IF history = << >> THEN None
  ELSE IF name_is(history[Len(history)], name) THEN Some(history[Len(history)])
       ELSE Stats_get_last_stats_for_name(SubSeq(history, 1, Len(history) - 1), name)

\* Stats.calculate_delta(), stats.py lines 115-134
Stats_calculate_delta(current, last) ==
  IF last = None
  THEN StatsOf(0, 0, 0, 0, 0)
  ELSE StatsOf(current.total_cost_cents - dict_get(last[1], "total_cost_cents", 0),
               current.input_tokens - dict_get(last[1], "input_tokens", 0),
               current.output_tokens - dict_get(last[1], "output_tokens", 0),
               current.cache_read - dict_get(last[1], "cache_read", 0),
               current.cache_write - dict_get(last[1], "cache_write", 0))

\* the five fields that main() compares, lines 217-230
compare_fields(d) ==
  StatsOf(dict_get(d, "total_cost_cents", 0), dict_get(d, "input_tokens", 0),
          dict_get(d, "output_tokens", 0), dict_get(d, "cache_read", 0),
          dict_get(d, "cache_write", 0))

\* faulty variant of should_save: every run is saved
should_save_always(current_stats, last_stats) == TRUE

\* should_save, lines 214-232
should_save(current_stats, last_stats) ==
  ~(last_stats # None /\ compare_fields(current_stats) = compare_fields(last_stats[1]))

\* the values of --name: the default and another one
Names == {"default", "other"}

\* the stats that parse_stats() reads from the table that opencode prints
CurrentStats == {StatsOf(0, 0, 0, 0, 0), StatsOf(1, 2, 0, 0, 0), StatsOf(1, 2, 0, 0, 1)}

\* what "opencode stats" prints: nothing, or a table, which stands here for
\* the five numbers that parse_stats() (lines 63-112) reads from it
NoOutput == [text |-> "empty"]
TableOf(stats) == [text |-> "table", stats |-> stats]
parse_stats(output) == output.stats

\* opencode is not installed, fails, prints nothing, or prints a table
OpencodeRuns ==
  {[found |-> FALSE, rc |-> 127, stdout |-> NoOutput],
   [found |-> TRUE, rc |-> 1, stdout |-> TableOf(StatsOf(1, 2, 0, 0, 0))],
   [found |-> TRUE, rc |-> 0, stdout |-> NoOutput]}
    \cup {[found |-> TRUE, rc |-> 0, stdout |-> TableOf(s)] : s \in CurrentStats}

\* get_opencode_stats(), lines 162-175
get_opencode_stats(run) ==
  IF ~run.found THEN NoOutput ELSE IF run.rc # 0 THEN NoOutput ELSE run.stdout

\* the history files that the runs start from: none, not JSON, JSON that is
\* no list, an empty list, entries of one and of two names, and entries of
\* another writer: one that lacks fields, one that lacks the name, and two
\* equal entries in a row
InitHistoryFiles ==
  { MissingFile,
    [kind |-> "corrupt"],
    [kind |-> "object"],
    ListFile(<< >>),
    ListFile(<<EntryOf("default", 0, StatsOf(1, 2, 0, 0, 0))>>),
    ListFile(<<EntryOf("default", 0, StatsOf(0, 0, 0, 0, 0)),
               EntryOf("other", 0, StatsOf(1, 2, 0, 0, 0))>>),
    ListFile(<<[name |-> "default", timestamp |-> 0, total_cost_cents |-> 1]>>),
    ListFile(<<[timestamp |-> 0, total_cost_cents |-> 1, input_tokens |-> 2,
                output_tokens |-> 0, cache_read |-> 0, cache_write |-> 1]>>),
    ListFile(<<EntryOf("default", 0, StatsOf(1, 2, 0, 0, 1)),
               EntryOf("default", 0, StatsOf(1, 2, 0, 0, 1))>>) }

\* a run of cost-check.py that ended before it read the history
EndedEarly(name, printed, clock) ==
  [name |-> name, exit_code |-> 1, printed |-> printed, clock |-> clock,
   current |-> None, history |-> None, last |-> None, delta |-> None, saved |-> FALSE,
   before |-> history_file, after |-> history_file]

\* main(), lines 178-245, as one run of the process
cost_check(maxChecks) ==
  /\ pc = "idle"
  /\ Len(checks) < maxChecks
  /\ \E name \in Names, run \in OpencodeRuns, t \in now..MaxDay :
       LET output == get_opencode_stats(run)
           current_stats == parse_stats(output)
           current_entry == EntryOf(name, t, current_stats)
           history == load_history(history_file)
           last_stats == get_last_stats_for_name(history, name)
           delta == calculate_delta(current_stats, last_stats)
           save == should_save(current_stats, last_stats)
           saved == IF save THEN save_history(Append(history, current_entry))
                    ELSE history_file
       IN  IF output = NoOutput
           THEN \* lines 190-192: {"error": ...}, exit 1
                /\ checks' = Append(checks, EndedEarly(name, "error", now))
                /\ UNCHANGED <<now, history_file>>
           ELSE IF history_file.kind = "object"
           THEN \* json.load returned a value that is no list: the loop of
                \* line 135 or the append of line 236 raises, nothing is saved
                /\ checks' = Append(checks, EndedEarly(name, "traceback", t))
                /\ now' = t
                /\ UNCHANGED history_file
           ELSE /\ checks' = Append(checks,
                       [name |-> name, exit_code |-> 0, printed |-> "result", clock |-> t,
                        current |-> Some(current_entry), history |-> Some(history),
                        last |-> last_stats, delta |-> Some(delta), saved |-> save,
                        before |-> history_file, after |-> saved])
                /\ now' = t
                /\ history_file' = saved
  /\ UNCHANGED <<repo, pc, argv, local, exit_code, outcome, out, cmds, faults, pre, hist,
               views, call>>

\* a caller has called Stats.calculate_delta on the last entry that
\* Stats.get_last_stats_for_name finds in the history of the file
call_Stats_delta ==
  /\ pc = "idle" /\ checks = << >>
  /\ history_file.kind # "object"
  /\ \E name \in Names, current \in CurrentStats :
       LET history == load_history(history_file)
           last == Stats_get_last_stats_for_name(history, name)
       IN  call' = [fn |-> "Stats.calculate_delta", history |-> history, name |-> name,
                    current |-> current, last |-> last,
                    result |-> Stats_calculate_delta(current, last)]
  /\ pc' = "called"
  /\ UNCHANGED <<repo, now, argv, local, exit_code, outcome, out, cmds, faults, pre, hist,
               views, history_file, checks>>

\* the call has returned and the caller's process has ended
Return ==
  /\ pc = "called"
  /\ pc' = "idle"
  /\ call' = NoCall
  /\ UNCHANGED <<repo, now, argv, local, exit_code, outcome, out, cmds, faults, pre, hist,
               views, history_file, checks>>

(***************************************************************************)
(* Spec: one run of the workflow from every repository, with every         *)
(* override, where every git command may fail for an outside reason.       *)
(***************************************************************************)
Next ==
  \/ main(1)
  \/ check_gpg_config(BOOLEAN)
  \/ check_branch(BOOLEAN)
  \/ create_branch(BOOLEAN)
  \/ check_changes(BOOLEAN)
  \/ ProcessExit

Spec == Init /\ [][Next]_vars

(***************************************************************************)
(* SpecRuns: up to MaxRuns successive runs, the user and the calendar      *)
(* acting between them; git answers from the repository alone.             *)
(***************************************************************************)
InitRuns ==
  /\ Init
  /\ repo.email = Some(S_email) /\ repo.signingkey = Some(S_key)
  /\ repo.untracked = << >>
  /\ repo.unstaged \in {<< >>, <<P_skills_foo_bar>>}

NextRuns ==
  \/ main(MaxRuns)
  \/ check_gpg_config({FALSE})
  \/ check_branch({FALSE})
  \/ create_branch({FALSE})
  \/ check_changes({FALSE})
  \/ ProcessExit
  \/ UserSwitch
  \/ Midnight

SpecRuns == InitRuns /\ [][NextRuns]_vars

(***************************************************************************)
(* SpecViews: one run of the workflow and the two other has-changes        *)
(* predicates, asked about the same repository; git answers from the       *)
(* repository alone.                                                       *)
(***************************************************************************)
InitViews ==
  /\ Init
  /\ repo.email = Some(S_email) /\ repo.signingkey = Some(S_key)

NextViews ==
  \/ main(1)
  \/ check_gpg_config({FALSE})
  \/ check_branch({FALSE})
  \/ create_branch({FALSE})
  \/ check_changes({FALSE})
  \/ ProcessExit
  \/ call_Git_has_changes({FALSE})
  \/ call_uncommitted_has_changes({FALSE})

SpecViews == InitViews /\ [][NextViews]_vars

(***************************************************************************)
(* SpecCalls: one run of the workflow, where every git command may fail    *)
(* for an outside reason, or calls of the functions on their own.          *)
(***************************************************************************)
InitCalls ==
  /\ Init
  /\ repo.email = Some(S_email) /\ repo.signingkey = Some(S_key)
  /\ <<repo.head, repo.branches>> \in
       { <<Some(S_main), {}>>, <<Some(S_feature_x), {}>>, <<Some(S_main), {S_main}>>,
         <<None, {S_main, S_feature_x}>> }
  /\ repo.unstaged = <<P_skills_foo_bar>>
  /\ repo.staged = << >> /\ repo.untracked = << >>

NextCalls ==
  \/ main(1)
  \/ check_gpg_config(BOOLEAN)
  \/ check_branch(BOOLEAN)
  \/ create_branch(BOOLEAN)
  \/ check_changes(BOOLEAN)
  \/ ProcessExit
  \/ call_detect_change_type
  \/ call_generate_branch_name
  \/ call_is_detached_head
  \/ call_rev_parse_short_head
  \/ call_path_query
  \/ Return

SpecCalls == InitCalls /\ [][NextCalls]_vars

(***************************************************************************)
(* SpecStats: up to MaxChecks runs of cost-check.py, one after the other,  *)
(* on every history file, or a call of the Stats functions on their own.   *)
(***************************************************************************)
InitStats ==
  /\ repo = Repo(Some(S_main), {S_main}, Some(S_email), Some(S_key), << >>, << >>, << >>)
  /\ now = 0
  /\ pc = "idle"
  /\ argv = None
  /\ local = NoLocals
  /\ exit_code = -1
  /\ outcome = "none"
  /\ out = << >>
  /\ cmds = << >>
  /\ faults = {}
  /\ pre = repo
  /\ hist = << >>
  /\ views = [git |-> None, report |-> None]
  /\ call = NoCall
  /\ history_file \in InitHistoryFiles
  /\ checks = << >>

NextStats ==
  \/ cost_check(MaxChecks)
  \/ call_Stats_delta
  \/ Return

SpecStats == InitStats /\ [][NextStats]_vars

(***************************************************************************)
(* SpecLive: Spec, where a process that has started goes on: every         *)
(* external command returns, with whatever outcome, and the interpreter    *)
(* takes the next statement.  main() (lines 179-184) calls the three       *)
(* checks one after the other; check_branch() falls through to the branch  *)
(* creation of lines 140-148.  The fairness of check_branch and of the     *)
(* branch creation is stated on the program counter: the stage is left.    *)
(* Under [][Next]_vars the only steps that leave the stage are steps of    *)
(* check_branch, respectively create_branch, and both are enabled in every *)
(* state of their stage (each covers all outcomes of its commands).        *)
(***************************************************************************)
LeavesStage(stage) == pc = stage /\ pc' \in {"check_gpg_config", "check_branch",
                                           "create_branch", "check_changes", "exited"} \ {stage}

Fairness ==
  /\ WF_vars(check_gpg_config(BOOLEAN))
  /\ WF_pc(LeavesStage("check_branch"))
  /\ WF_pc(LeavesStage("create_branch"))
  /\ WF_vars(check_changes(BOOLEAN))

InitLive ==
  /\ Init
  /\ repo.unstaged \in {<< >>, <<P_skills_foo_bar>>}
  /\ repo.staged = << >> /\ repo.untracked = << >>

SpecLive == InitLive /\ [][Next]_vars /\ Fairness

(***************************************************************************)
(* Vocabulary of the properties.                                           *)
(***************************************************************************)
ConfigCommands == {"config user.email", "config user.signingkey"}

ReadCommands ==
  ConfigCommands \cup
  {"branch --show-current", "branch", "rev-parse --short HEAD", "diff --name-only",
   "diff --quiet", "diff --cached --quiet"}

\* the current (or last) run has issued command c
Issued(c) == \E i \in DOMAIN cmds : cmds[i] = c

\* how often it has issued c
TimesIssued(c) == Cardinality({i \in DOMAIN cmds : cmds[i] = c})

\* it has printed message m
Printed(m) == \E i \in DOMAIN out : out[i] = m

IsPrefix(s, t) == Len(s) <= Len(t) /\ s = SubSeq(t, 1, Len(s))

\* the configured email or signing key is unset or empty
ConfigEmpty(r) == ~Truthy(r.email) \/ ~Truthy(r.signingkey)

\* a configuration query of the run failed for an outside reason
ConfigFault == \E i \in faults : cmds[i] \in ConfigCommands

\* a read query after the signing gate failed for an outside reason
ReadFault == \E i \in faults : cmds[i] \in ReadCommands \ ConfigCommands

\* signing is configured and the run could read it
SigningConfigured == ~ConfigEmpty(pre) /\ ~ConfigFault

\* the run issued create-and-switch-branch and the command failed: the name
\* exists or is invalid in the repository the run found, or git failed for
\* an outside reason
CheckoutFailed ==
  \E i \in DOMAIN cmds :
    /\ cmds[i] = "checkout -b"
    /\ (i \in faults \/ ~CheckoutNewBranchOk(pre, local.branch_name))

(***************************************************************************)
(* C1  Signing gate: in every run where the configured user email or the   *)
(* signing key is empty, or a configuration query fails, the run ends with *)
(* exit code 1 and issues no command after the configuration queries: no   *)
(* branch query, no changed-path query, no branch creation, no change      *)
(* detection.                                                              *)
(***************************************************************************)
C1_SigningGate ==
  (cmds # << >> /\ (ConfigEmpty(pre) \/ ConfigFault)) =>
    /\ pc \in {"exited", "idle"}
    /\ exit_code = 1
    /\ outcome = "signing_failure"
    /\ Len(cmds) <= 2
    /\ \A i \in DOMAIN cmds : cmds[i] \in ConfigCommands
    /\ repo = pre

\* the email is set to the empty text, the key is set, no query fails
C1_Witness ==
  /\ pc = "exited"
  /\ pre.email = Some(<< >>) /\ Truthy(pre.signingkey)
  /\ faults = {}
  /\ exit_code = 1

(***************************************************************************)
(* C2  With signing configured, the run issues create-and-switch-branch if *)
(* and only if is-detached is true or the current-branch query returned    *)
(* exactly "main" or "master"; for any other branch name it takes the      *)
(* Skipped path: no mutating command, the repository is left as found, and *)
(* the next commands are those of change detection.                        *)
(***************************************************************************)
SkippedCommands ==
  <<"config user.email", "config user.signingkey", "branch --show-current", "branch",
    "diff --quiet", "diff --cached --quiet">>

C2_BranchDecision ==
  Issued("branch") =>
    IF local.detached \/ local.queried_branch \in {Some(S_main), Some(S_master)}
    THEN /\ local.path = "CreatingBranch"
         /\ pc = "create_branch" \/ Issued("checkout -b")
    ELSE /\ local.path = "Skipped"
         /\ pc \in {"check_changes", "exited", "idle"}
         /\ ~Issued("checkout -b")
         /\ IsPrefix(cmds, SkippedCommands)
         /\ repo = pre

\* a run on the branch "Main" ends without a branch having been created
C2_Witness ==
  /\ pc = "exited"
  /\ local.queried_branch = Some(S_Main) /\ ~local.detached
  /\ outcome = "Ready"
  /\ repo.head = Some(S_Main)

(***************************************************************************)
(* C3  As claimed: in every run in which signing is configured the process *)
(* ends with exit code 0.                                                  *)
(***************************************************************************)
C3_Original == (pc = "exited" /\ SigningConfigured) => exit_code = 0

(***************************************************************************)
(* C3  As amended: in every run in which signing is configured the process *)
(* ends with exit code 1 if create-and-switch-branch was issued and        *)
(* failed, and with exit code 0 otherwise, whether or not a branch was     *)
(* created and whether or not changes exist.                               *)
(***************************************************************************)
C3_ExitCodes ==
  (pc = "exited" /\ SigningConfigured) =>
    exit_code = (IF CheckoutFailed THEN 1 ELSE 0)

\* a branch was created, nothing is changed, the run ends with status 0
C3_Witness ==
  /\ pc = "exited"
  /\ SigningConfigured
  /\ Printed("created")
  /\ repo.unstaged = << >> /\ repo.staged = << >> /\ faults = {}
  /\ exit_code = 0

(***************************************************************************)
(* C4  Branch-creation failure is fatal: if create-and-switch-branch fails *)
(* the run stops there with exit code 1 and the failure shown, the command *)
(* was issued once, the success message is not printed and change          *)
(* detection is not reached.                                               *)
(***************************************************************************)
C4_CreationFailureFatal ==
  CheckoutFailed =>
    /\ pc \in {"exited", "idle"}
    /\ exit_code = 1
    /\ Printed("traceback")
    /\ TimesIssued("checkout -b") = 1
    /\ cmds[Len(cmds)] = "checkout -b"
    /\ ~Printed("created")
    /\ ~Printed("checking_changes")
    /\ ~Issued("diff --quiet") /\ ~Issued("diff --cached --quiet")
    /\ repo = pre

\* the override names a branch that exists
C4_Witness ==
  /\ pc = "exited"
  /\ CheckoutFailed
  /\ faults = {}
  /\ local.branch_name \in pre.branches

(***************************************************************************)
(* C5  As claimed: for every repository in which signing is configured,    *)
(* the current branch is a non-protected branch and nothing is staged or   *)
(* unstaged, two runs in a row with nothing changed in between both end in *)
(* NothingToCommit with exit code 0 and neither issues                     *)
(* create-and-switch-branch.                                               *)
(***************************************************************************)
\* signing configured, on a non-protected branch, nothing staged or unstaged
IdemState(r) ==
  /\ ~ConfigEmpty(r)
  /\ r.head # None /\ r.head[1] \notin {S_main, S_master}
  /\ r.unstaged = << >> /\ r.staged = << >>

\* run a ended in NothingToCommit without creating a branch
CleanNoOp(a) ==
  /\ a.outcome = "NothingToCommit" /\ a.exit_code = 0
  /\ \A i \in DOMAIN a.cmds : a.cmds[i] # "checkout -b"

C5_Original ==
  \A i \in 1..(Len(hist) - 1) :
    (IdemState(hist[i].pre) /\ hist[i + 1].pre = hist[i].post) =>
      CleanNoOp(hist[i]) /\ CleanNoOp(hist[i + 1])

(***************************************************************************)
(* C5  As amended: the same, for the repositories in which moreover at     *)
(* least one branch exists, so that the branch listing is not empty.       *)
(***************************************************************************)
C5_Idempotence ==
  \A i \in 1..(Len(hist) - 1) :
    (/\ IdemState(hist[i].pre)
     /\ hist[i].pre.branches # {}
     /\ hist[i + 1].pre = hist[i].post) =>
      /\ CleanNoOp(hist[i]) /\ CleanNoOp(hist[i + 1])
      /\ hist[i + 1].post = hist[i].pre

\* two such runs in a row have ended
C5_Witness ==
  /\ Len(hist) = 2
  /\ IdemState(hist[1].pre) /\ hist[1].pre.branches # {}
  /\ hist[2].pre = hist[1].post
  /\ CleanNoOp(hist[2])

(***************************************************************************)
(* C6  Detachment forces creation: whenever is-detached is true, the       *)
(* empty branch listing included, the label shown is the short revision    *)
(* ("initial" when the revision query fails) and not what the              *)
(* current-branch query returned, and the run goes on to create a branch,  *)
(* whatever the current-branch query returned and whatever paths changed.  *)
(***************************************************************************)
C6_DetachedForcesCreation ==
  (Issued("branch") /\ local.detached) =>
    /\ cmds[5] = "rev-parse --short HEAD"
    /\ local.label = (IF 5 \in faults \/ ~HasCommit(pre) THEN S_initial ELSE S_sha)
    /\ local.current_branch = Some(local.label)
    /\ local.queried_branch # Some(local.label)
    /\ Printed("detached_notice")
    /\ local.path = "CreatingBranch"
    /\ pc = "create_branch" \/ Issued("checkout -b")

\* the listing is empty on the unborn branch feature/x, which the
\* current-branch query names; no path is changed; the branch is created
C6_Witness ==
  /\ pc = "exited"
  /\ local.detached
  /\ local.queried_branch = Some(S_feature_x)
  /\ pre.unstaged = << >> /\ pre.staged = << >>
  /\ local.label = S_initial
  /\ Printed("created")

(***************************************************************************)
(* C7  Change-detection outcome: once change detection is reached the run  *)
(* ends with exit code 0, in NothingToCommit without the next-step         *)
(* guidance exactly when both the unstaged and the staged quiet diff       *)
(* report no differences, and in Ready with the guidance otherwise.        *)
(***************************************************************************)
\* both quiet diffs of the run exited with status 0
BothQuiet ==
  /\ repo.unstaged = << >> /\ repo.staged = << >>
  /\ \A i \in faults : cmds[i] \notin {"diff --quiet", "diff --cached --quiet"}

C7_ChangeDetection ==
  Issued("diff --quiet") =>
    /\ pc \in {"exited", "idle"}
    /\ exit_code = 0
    /\ Issued("diff --cached --quiet")
    /\ IF BothQuiet
       THEN /\ outcome = "NothingToCommit"
            /\ Printed("no_changes") /\ ~Printed("ready") /\ ~Printed("next_steps")
       ELSE /\ outcome = "Ready"
            /\ Printed("ready") /\ Printed("next_steps") /\ ~Printed("no_changes")

\* only staged changes
C7_Witness ==
  /\ pc = "exited"
  /\ repo.unstaged = << >> /\ repo.staged # << >>
  /\ faults = {}
  /\ outcome = "Ready"

(***************************************************************************)
(* C8  Read failures are never fatal: with signing configured and branch   *)
(* creation succeeding or not needed, whichever read queries fail the run  *)
(* puts a default in place of the answer (no branch name, detached,        *)
(* "initial", no changed path, changes present) and ends with exit code 0. *)
(***************************************************************************)
\* the command at position i of the run failed for an outside reason
FaultAt(i, c) == i \in faults /\ i \in DOMAIN cmds /\ cmds[i] = c

C8_ReadFailuresNotFatal ==
  (cmds # << >> /\ SigningConfigured /\ ~CheckoutFailed) =>
    /\ exit_code # 1
    /\ ~Printed("traceback")
    /\ pc = "exited" => (exit_code = 0 /\ outcome \in {"NothingToCommit", "Ready"})
    /\ FaultAt(3, "branch --show-current") => local.queried_branch = None
    /\ FaultAt(4, "branch") => local.detached
    /\ (local.detached /\ FaultAt(5, "rev-parse --short HEAD")) => local.label = S_initial
    /\ (\E i \in DOMAIN cmds : FaultAt(i, "diff --name-only")) =>
         (local.changed_files = << >> /\ local.change_type = S_update)
    /\ (\E i \in DOMAIN cmds : FaultAt(i, "diff --quiet")) => local.has_unstaged
    /\ (\E i \in DOMAIN cmds : FaultAt(i, "diff --cached --quiet")) => local.has_staged

\* every read query of a run fails
C8_Witness ==
  /\ pc = "exited"
  /\ SigningConfigured
  /\ faults = {3, 4, 5, 6, 7, 9, 10}
  /\ exit_code = 0

(***************************************************************************)
(* C9  Untracked files do not count as changes for the workflow: when the  *)
(* only uncommitted changes are untracked files, Git.has_changes is false  *)
(* and a run that reaches change detection ends in NothingToCommit, while  *)
(* has_changes of the reporting script is true.                            *)
(***************************************************************************)
OnlyUntracked(r) == r.unstaged = << >> /\ r.staged = << >> /\ r.untracked # << >>

C9_UntrackedNotCounted ==
  OnlyUntracked(repo) =>
    /\ views.git # None => views.git = Some(FALSE)
    /\ views.report # None => views.report = Some(TRUE)
    /\ Issued("diff --quiet") =>
         (outcome = "NothingToCommit" /\ ~local.has_unstaged /\ ~local.has_staged)

\* the three predicates have been asked about one such repository
C9_Witness ==
  /\ OnlyUntracked(repo)
  /\ views.git = Some(FALSE)
  /\ views.report = Some(TRUE)
  /\ pc = "idle" /\ outcome = "NothingToCommit"

(***************************************************************************)
(* C10  The workflow has a single side effect: a run issues read queries   *)
(* and at most one create-and-switch-branch, nothing that stages, commits  *)
(* or renames; the repository differs from the one the run found only by   *)
(* the branch created, and not at all on the Skipped path or after a       *)
(* failure at the signing gate.                                            *)
(***************************************************************************)
C10_SingleSideEffect ==
  /\ \A i \in DOMAIN cmds : cmds[i] \in ReadCommands \cup {"checkout -b"}
  /\ TimesIssued("checkout -b") <= 1
  /\ repo # pre =>
       /\ Printed("created")
       /\ repo = CheckoutNewBranch(pre, local.branch_name)
  /\ (local.path = "Skipped" \/ outcome = "signing_failure") => repo = pre

\* a branch was created on the way to Ready
C10_Witness ==
  /\ pc = "exited"
  /\ TimesIssued("checkout -b") = 1
  /\ repo.head # pre.head
  /\ repo.unstaged = pre.unstaged /\ repo.unstaged # << >>
  /\ outcome = "Ready"

(***************************************************************************)
(* C11  The classifier goes through the paths in input order and returns   *)
(* at the first path that matches any rule, a path being tried against the *)
(* rules in the order skill, test, docs: a path that matches several rules *)
(* gets the earliest (["skills/app.test.js"] is skill), an earlier path    *)
(* decides over a later one with an earlier rule (["app.test.js",          *)
(* "skills/x"] is test), and the result is update exactly when no path     *)
(* matches any rule, the empty list included.                              *)
(***************************************************************************)
\* the first rule path f matches, the empty text when it matches none
MatchedRule(f) ==
  IF StartsWith(f, S_skills_slash) THEN S_skill
  ELSE IF re_search_test_spec(f) THEN S_test
  ELSE IF re_match_docs(f) THEN S_docs
  ELSE << >>

C11_FirstMatchWins ==
  call.fn = "detect_change_type" =>
    LET paths == call.changed_files
        matching == {i \in DOMAIN paths : MatchedRule(paths[i]) # << >>}
    IN  /\ call.result =
             (IF matching = {} THEN S_update ELSE MatchedRule(paths[Min(matching)]))
        /\ (call.result = S_update) <=> (matching = {})
        /\ paths = << >> => call.result = S_update
        /\ paths = <<P_skills_app_test>> => call.result = S_skill
        /\ paths = <<P_app_test, P_skills_x>> => call.result = S_test

\* a test path before a skill path
C11_Witness ==
  /\ call.fn = "detect_change_type"
  /\ call.changed_files = <<P_app_test, P_skills_x>>
  /\ call.result = S_test

(***************************************************************************)
(* C12  Docs rule: a path that matches neither the skill nor the test rule *)
(* is classified docs if and only if it begins with "docs/" or its file    *)
(* name, in any directory and with any extension, is exactly README or     *)
(* CHANGELOG; so "src/README.md" is docs and "READMEs-old/x.txt" is not.   *)
(***************************************************************************)
\* the file name of a path, without its extension
FileStem(f) == os_path_splitext_root(os_path_basename(f))

\* the docs rule as the claim has it
DocsRuleAsClaimed(f) ==
  StartsWith(f, S_docs_slash) \/ FileStem(f) \in {S_README, S_CHANGELOG}

C12_DocsRule ==
  (call.fn = "detect_change_type" /\ Len(call.changed_files) = 1) =>
    LET f == call.changed_files[1]
    IN  (~StartsWith(f, S_skills_slash) /\ ~re_search_test_spec(f)) =>
          ((call.result = S_docs) <=> DocsRuleAsClaimed(f))

(***************************************************************************)
(* C13  The override is consumed verbatim: for every non-empty override,   *)
(* every category and every path list the generator returns the override   *)
(* unchanged, and the workflow passes exactly that text to                 *)
(* create-and-switch-branch; an empty or absent override counts as not     *)
(* given, and the name is derived: category, "/", date, "-", slug.         *)
(***************************************************************************)
\* name is derived for the category: "{category}/{YYYYMMDD}-{slug}" with
\* the date of one of the days and a slug that is not empty
IsDerivedName(name, category) ==
  \E d \in 0..MaxDay :
    LET stem == category \o <<"/">> \o strftime_Ymd(DateOf(d)) \o <<"-">>
    IN  StartsWith(name, stem) /\ Len(name) > Len(stem)

C13_OverrideVerbatim ==
  /\ call.fn = "generate_branch_name" =>
       IF call.branch_prefix # None /\ call.branch_prefix[1] # << >>
       THEN call.result = call.branch_prefix[1]
       ELSE IsDerivedName(call.result, call.change_type)
  /\ Issued("checkout -b") =>
       IF argv # None /\ argv[1] # << >>
       THEN /\ local.branch_name = argv[1]
            /\ Printed("created") => repo.head = Some(argv[1])
       ELSE /\ IsDerivedName(local.branch_name, local.change_type)
            /\ Printed("created") => repo.head = Some(local.branch_name)

\* a run on main with the override "feature/x" has created and switched to
\* the branch feature/x
C13_Witness ==
  /\ pc = "exited"
  /\ argv = Some(S_feature_x)
  /\ pre.head = Some(S_main)
  /\ Printed("created")
  /\ repo.head = Some(S_feature_x)

(***************************************************************************)
(* C14  Without an override the generator returns                          *)
(* "{category}/{YYYYMMDD}-{slug}", where the slug is the slug of the first *)
(* path's file name if that is not empty, else the slug of the last        *)
(* segment of its directory if that is not empty, else "update" (also for  *)
(* the empty path list); the slug is never empty and has only characters   *)
(* of [a-z0-9].  generate("skill", ["skills/foo/bar.txt"]) ends in "-bar"  *)
(* and generate("docs", ["docs/"]) ends in "-docs".                        *)
(***************************************************************************)
\* a text lower-cased, then only its characters a-z and 0-9
SlugOf(t) == SelectSeq(Lower(t), IsLowerAlnum)

\* the slug as the claim has it
SlugAsClaimed(paths) ==
  IF paths = << >> THEN S_update
  ELSE LET segments == Split(os_path_dirname(paths[1]), "/")
           filename_slug == SlugOf(FileStem(paths[1]))
           dirname_slug == SlugOf(segments[Len(segments)])
       IN  IF filename_slug # << >> THEN filename_slug
           ELSE IF dirname_slug # << >> THEN dirname_slug
           ELSE S_update

EndsWith(s, t) == Len(s) >= Len(t) /\ SubSeq(s, Len(s) - Len(t) + 1, Len(s)) = t

C14_DerivedName ==
  (call.fn = "generate_branch_name" /\ ~Truthy(call.branch_prefix)) =>
    LET slug == SlugAsClaimed(call.changed_files)
        category == call.change_type
        from == Len(category) + 1
    IN  /\ slug # << >>
        /\ \A i \in DOMAIN slug : IsLowerAlnum(slug[i])
        /\ \E i \in DOMAIN call.clock :
             call.result = category \o <<"/">> \o strftime_Ymd(call.clock[i]) \o <<"-">> \o slug
        \* the date has the form YYYYMMDD
        /\ (call.clock[1] = Date(2026, 12, 31) /\ call.clock[2] = Date(2026, 12, 31)) =>
             SubSeq(call.result, from, from + 10) =
               <<"/", "2", "0", "2", "6", "1", "2", "3", "1", "-">> \o <<slug[1]>>
        /\ (category = S_skill /\ call.changed_files = <<P_skills_foo_bar>>) =>
             EndsWith(call.result, <<"-", "b", "a", "r">>)
        /\ (category = S_docs /\ call.changed_files = <<P_docs_dir>>) =>
             EndsWith(call.result, <<"-", "d", "o", "c", "s">>)

\* the directory gives the slug
C14_Witness ==
  /\ call.fn = "generate_branch_name"
  /\ call.branch_prefix = None
  /\ call.change_type = S_docs /\ call.changed_files = <<P_docs_dir>>
  /\ call.result = S_docs_slash \o <<"2", "0", "2", "6", "1", "2", "3", "1">>
                     \o <<"-", "d", "o", "c", "s">>

(***************************************************************************)
(* C15  Empty command output becomes the empty sequence: for every         *)
(* changed-path query and the untracked-path query, of the Git class and   *)
(* of the scripts, when the command prints nothing or white space only, or *)
(* fails, the result is [] and never a list that holds an empty text.      *)
(***************************************************************************)
\* nothing but white space, if anything
IsBlank(text) == \A i \in DOMAIN text : IsSpace(text[i])

C15_EmptyOutputEmptyList ==
  (call.fn \in PathQueries /\ (IsBlank(call.proc.stdout) \/ call.proc.rc # 0)) =>
    /\ call.result = << >>
    /\ \A i \in DOMAIN call.result : call.result[i] # << >>

\* "git diff --name-only" prints an empty line and exits with status 0
C15_Witness ==
  /\ call.fn = "Git.diff_name_only"
  /\ call.proc = Proc(0, <<"\n">>)
  /\ call.result = << >>

(***************************************************************************)
(* C16  Only the unstaged paths drive naming: the category and the branch  *)
(* name the workflow derives are a function of the unstaged path list, the *)
(* date and the override, in which the staged paths do not occur, so that  *)
(* two repositories that differ only in their staged paths get the same    *)
(* category and the same name; with staged changes only, on a protected    *)
(* branch, the category is update and the slug is update.                  *)
(***************************************************************************)
\* the run has issued create-and-switch-branch and the changed-path query
\* before it was answered by the repository
NamedFromRepository ==
  \E i \in DOMAIN cmds : cmds[i] = "checkout -b" /\ (i - 1) \notin faults

\* the name for the unstaged paths, the day and the override
NameFor(unstaged, day, override) ==
  generate_branch_name(detect_change_type(unstaged), unstaged, override,
                       <<DateOf(day), DateOf(day)>>).name

C16_OnlyUnstagedDriveNaming ==
  NamedFromRepository =>
    /\ local.changed_files = pre.unstaged
    /\ local.change_type = detect_change_type(pre.unstaged)
    /\ local.branch_name = NameFor(pre.unstaged, now, argv)
    /\ pre.unstaged = << >> =>
         /\ local.change_type = S_update
         /\ ~Truthy(argv) =>
              local.branch_name = S_update \o <<"/">> \o strftime_Ymd(DateOf(now))
                                    \o <<"-">> \o S_update

\* staged changes only, on main: the branch "update/{date}-update" is created
C16_Witness ==
  /\ pc = "exited"
  /\ pre.head = Some(S_main)
  /\ pre.unstaged = << >> /\ pre.staged = <<P_random>>
  /\ argv = None /\ faults = {}
  /\ Printed("created")
  /\ StartsWith(local.branch_name, S_update \o <<"/">>)
  /\ EndsWith(local.branch_name, <<"-">> \o S_update)

(***************************************************************************)
(* C17  The steps are strictly sequential and ordered: in every run the    *)
(* commands are issued one after the other in the order signing-config     *)
(* reads, current-branch read, branch-listing read, then, on the creation  *)
(* path only, changed-path read and create-and-switch-branch, then the     *)
(* unstaged and the staged quiet diff; change detection is never issued    *)
(* before branch creation has succeeded, and the changed paths used for    *)
(* the name are read before the branch is created.  The revision reads,    *)
(* which the order above does not name, come after the branch listing      *)
(* (when detached) and before the changed-path read.                       *)
(***************************************************************************)
CreatingCommands ==
  <<"config user.email", "config user.signingkey", "branch --show-current", "branch",
    "diff --name-only", "checkout -b", "diff --quiet", "diff --cached --quiet">>

\* the commands of the run without its revision reads
OrderedCommands == SelectSeq(cmds, LAMBDA c : c # "rev-parse --short HEAD")

\* the position of the first c among the commands of the run, 0 when the
\* run has not issued c
FirstIssued(c) ==
  IF Issued(c) THEN Min({i \in DOMAIN cmds : cmds[i] = c}) ELSE 0

C17_StepsInOrder ==
  /\ IsPrefix(OrderedCommands,
              IF local.path = "CreatingBranch" THEN CreatingCommands ELSE SkippedCommands)
  /\ \A i \in DOMAIN cmds :
       cmds[i] = "rev-parse --short HEAD" =>
         /\ FirstIssued("branch") \in 1..(i - 1)
         /\ Issued("diff --name-only") => i < FirstIssued("diff --name-only")
  /\ (Issued("diff --name-only") \/ Issued("checkout -b")) => local.path = "CreatingBranch"
  /\ Issued("checkout -b") =>
       FirstIssued("diff --name-only") \in 1..(FirstIssued("checkout -b") - 1)
  /\ (local.path = "CreatingBranch" /\ Issued("diff --quiet")) =>
       /\ FirstIssued("checkout -b") \in 1..(FirstIssued("diff --quiet") - 1)
       /\ ~CheckoutFailed
       /\ Printed("created")
       /\ repo = CheckoutNewBranch(pre, local.branch_name)
  /\ Issued("diff --cached --quiet") =>
       FirstIssued("diff --quiet") = FirstIssued("diff --cached --quiet") - 1

\* a run on the creation path has issued all its commands
C17_Witness ==
  /\ pc = "exited"
  /\ local.path = "CreatingBranch"
  /\ OrderedCommands = CreatingCommands
  /\ Printed("created")

(***************************************************************************)
(* C18  is-detached is true exactly when the branch-listing query prints   *)
(* nothing (nothing is left of its output once stripped), fails, or prints *)
(* the marker "(HEAD detached"; the implementation of the Git class and    *)
(* that of the workflow script return the same value for every outcome of  *)
(* the branch-listing command.                                             *)
(***************************************************************************)
C18_IsDetachedHead ==
  call.fn = "is_detached_head" =>
    LET detached == \/ IsBlank(call.proc.stdout)
                    \/ call.proc.rc # 0
                    \/ Contains(call.proc.stdout, S_detached_marker)
    IN  /\ call.result.git = detached
        /\ call.result.script = detached
        /\ call.result.git = call.result.script

\* the listing names the branch main, and the command fails
C18_Witness ==
  /\ call.fn = "is_detached_head"
  /\ call.proc = Proc(128, BranchListing([head |-> Some(S_main), branches |-> {S_main}]))
  /\ call.result = [git |-> TRUE, script |-> TRUE]

(***************************************************************************)
(* C19  The short revision is never the empty text and its query never     *)
(* fails the caller: whenever the revision query fails or prints nothing   *)
(* (no commit yet) the result is "initial", in the Git class and in the    *)
(* workflow script; so in a repository without commits and with signing    *)
(* configured the workflow labels the position "initial", treats it as     *)
(* detached and goes on to create a branch.                                *)
(***************************************************************************)
C19_ShortRevisionDefault ==
  /\ call.fn = "rev_parse_short_head" =>
       /\ call.result.git # << >> /\ call.result.script # << >>
       /\ (call.proc.rc # 0 \/ IsBlank(call.proc.stdout)) =>
            call.result = [git |-> S_initial, script |-> S_initial]
  /\ (Issued("branch") /\ ~HasCommit(pre) /\ SigningConfigured) =>
       /\ local.detached
       /\ local.label = S_initial
       /\ Printed("detached_notice")
       /\ local.path = "CreatingBranch"
       /\ pc = "create_branch" \/ Issued("checkout -b")

\* a run in a repository without commits, on the unborn branch feature/x,
\* where every command is answered by the repository
C19_Witness ==
  /\ pc = "exited"
  /\ pre.head = Some(S_feature_x) /\ pre.branches = {}
  /\ faults = {}
  /\ local.label = S_initial
  /\ Issued("checkout -b")

(***************************************************************************)
(* C20  The date is captured once per call of the generator: for every     *)
(* input without an override, a first path whose file-name slug and        *)
(* directory slug are both empty included, the generator reads the clock   *)
(* exactly once and builds the name from that one date.                    *)
(***************************************************************************)
C20_ClockReadOnce ==
  (call.fn = "generate_branch_name" /\ ~Truthy(call.branch_prefix)) =>
    /\ call.reads = 1
    /\ StartsWith(call.result,
                  call.change_type \o <<"/">> \o strftime_Ymd(call.clock[1]) \o <<"-">>)

(***************************************************************************)
(* C21  Every run terminates: when each external command returns, a run    *)
(* that has started reaches exactly one terminal outcome among signing     *)
(* failure, branch-creation failure, NothingToCommit and Ready, and it     *)
(* passes through the states in the order VerifyingSigning,                *)
(* CheckingBranch, CreatingBranch or Skipped, CheckingChanges, visiting no *)
(* state twice.                                                            *)
(***************************************************************************)
TerminalOutcomes == {"signing_failure", "creation_failure", "NothingToCommit", "Ready"}

\* the state of the workflow: the terminal outcome once the process has
\* ended, Idle when no process runs
WorkflowState ==
  CASE pc = "check_gpg_config" -> "VerifyingSigning"
    [] pc = "check_branch" -> "CheckingBranch"
    [] pc = "create_branch" -> "CreatingBranch"
    [] pc = "check_changes" -> "CheckingChanges"
    [] pc = "exited" -> outcome
    [] OTHER -> "Idle"

\* one step of a running process: to a later state, Skipped being passed
\* through on the way from CheckingBranch to CheckingChanges
StepInOrder ==
  LET from == WorkflowState
      to == WorkflowState'
  IN  CASE from = "VerifyingSigning" ->
             /\ to \in {"CheckingBranch", "signing_failure"}
             /\ local'.path = "none"
        [] from = "CheckingBranch" ->
             \/ to = "CreatingBranch" /\ local'.path = "CreatingBranch"
             \/ to = "CheckingChanges" /\ local'.path = "Skipped"
        [] from = "CreatingBranch" ->
             /\ to \in {"CheckingChanges", "creation_failure"}
             /\ local'.path = "CreatingBranch"
        [] from = "CheckingChanges" ->
             /\ to \in {"NothingToCommit", "Ready"}
             /\ local'.path = local.path
        [] from \in TerminalOutcomes -> to = "Idle" /\ outcome' = outcome
        [] OTHER -> to \in {"Idle", "VerifyingSigning"}

C21_RunTerminates ==
  /\ [][StepInOrder]_vars
  /\ [](pc = "exited" => outcome \in TerminalOutcomes)
  /\ (pc = "check_gpg_config") ~> (pc = "exited")

\* a run has ended in Ready by way of Skipped
C21_Witness ==
  /\ pc = "exited"
  /\ outcome = "Ready"
  /\ local.path = "Skipped"
  /\ exit_code = 0

(***************************************************************************)
(* C22  In every run that ends with exit code 0, whatever the override and *)
(* whatever the outcomes of the read queries, the current branch of the    *)
(* repository at the end is a named branch outside {main, master}.         *)
(***************************************************************************)
OnProtectedBranch(r) == r.head # None /\ r.head[1] \in {S_main, S_master}

C22_NeverReadyOnProtected ==
  (pc = "exited" /\ exit_code = 0) =>
    (repo.head # None /\ ~OnProtectedBranch(repo))

(***************************************************************************)
(* C23  Same-day name collision: a run without override from a protected   *)
(* branch has created a branch; the user is back on that protected branch, *)
(* the created branch still exists, and a later run without override, on   *)
(* the same date and with the same unstaged paths, generates the same      *)
(* branch name, fails to create it (exit code 1) and leaves the repository *)
(* on the protected branch.                                                *)
(***************************************************************************)
CreatedFromProtected(run) ==
  /\ ~Truthy(run.argv)
  /\ OnProtectedBranch(run.pre)
  /\ run.outcome # "creation_failure"
  /\ run.post.head = Some(run.branch_name)

RunAgainFromProtected(first, second) ==
  /\ CreatedFromProtected(first)
  /\ ~Truthy(second.argv)
  /\ second.pre.head = first.pre.head
  /\ first.branch_name \in second.pre.branches
  /\ second.day = first.day
  /\ second.pre.unstaged = first.pre.unstaged

NameCollision(first, second) ==
  /\ second.branch_name = first.branch_name
  /\ \E k \in DOMAIN second.cmds : second.cmds[k] = "checkout -b"
  /\ second.outcome = "creation_failure" /\ second.exit_code = 1
  /\ second.post.head = second.pre.head /\ OnProtectedBranch(second.post)

NamedAt(history, name) == {i \in DOMAIN history : name_is(history[i], name)}

DeltaAsClaimed(history, name, current) ==
  LET named == NamedAt(history, name)
      latest == CHOOSE i \in named : \A k \in named : k <= i
  IN  IF named = {}
      THEN [f \in StatFields |-> 0]
      ELSE [f \in StatFields |->
              current[f] - (IF f \in DOMAIN history[latest] THEN history[latest][f] ELSE 0)]

C24_DeltaAgainstLastOfName ==
  /\ \A i \in DOMAIN checks :
       checks[i].exit_code = 0 =>
         checks[i].delta =
           Some(DeltaAsClaimed(checks[i].history[1], checks[i].name, checks[i].current[1]))
  /\ call.fn = "Stats.calculate_delta" =>
       call.result = DeltaAsClaimed(call.history, call.name, call.current)

\* a run has reported a delta against an entry of its name that is followed
\* by an entry of the other name
C24_Witness ==
  \E i \in DOMAIN checks :
    LET history == checks[i].history[1] IN
    /\ checks[i].exit_code = 0
    /\ NamedAt(history, checks[i].name) # {}
    /\ ~name_is(history[Len(history)], checks[i].name)
    /\ checks[i].delta # Some(StatsOf(0, 0, 0, 0, 0))

(***************************************************************************)
(* C25  The stats history is an append-only log without consecutive        *)
(* duplicates per name: when the runs start from a readable history (no    *)
(* file, or a list of entries), every run leaves the file as it is when    *)
(* it fails or when its five stat fields equal those of the latest entry   *)
(* of its name, and otherwise appends exactly one entry, its own, at the   *)
(* end; the entries that were there stay as they were and where they were; *)
(* and of the entries that the runs wrote no two successive ones of the    *)
(* same name have the same five stat fields.                               *)
(***************************************************************************)
Readable(file) == file.kind \in {"missing", "list"}

EntriesOf(file) == IF file.kind = "list" THEN file.entries ELSE << >>

FieldsOf(entry) == [f \in StatFields |-> IF f \in DOMAIN entry THEN entry[f] ELSE 0]

\* the run's stats equal those of the latest entry of its name
SameAsLatest(check) ==
  LET before == EntriesOf(check.before)
      named == NamedAt(before, check.name)
      latest == CHOOSE i \in named : \A k \in named : k <= i
  IN  named # {} /\ FieldsOf(before[latest]) = FieldsOf(check.current[1])

AppendsOrLeaves(check) ==
  IF check.exit_code # 0 \/ SameAsLatest(check)
  THEN check.after = check.before
  ELSE /\ check.after.kind = "list"
       /\ check.after.entries = Append(EntriesOf(check.before), check.current[1])
       /\ check.current[1].name = check.name

\* no two successive entries of one name after the first `written` entries
\* have the same stat fields
NoRepeatAfter(entries, written) ==
  \A i, j \in (written + 1)..Len(entries) :
    (/\ i < j
     /\ entries[i].name = entries[j].name
     /\ \A k \in (i + 1)..(j - 1) : entries[k].name # entries[i].name)
      => FieldsOf(entries[i]) # FieldsOf(entries[j])

C25_AppendOnlyHistory ==
  (checks # << >> /\ Readable(checks[1].before)) =>
    /\ \A i \in DOMAIN checks : AppendsOrLeaves(checks[i])
    /\ \A i \in 2..Len(checks) : checks[i].before = checks[i - 1].after
    /\ history_file = checks[Len(checks)].after
    /\ IsPrefix(EntriesOf(checks[1].before), EntriesOf(history_file))
    /\ NoRepeatAfter(EntriesOf(history_file), Len(EntriesOf(checks[1].before)))

\* three runs of one name on a list of entries: the first and the third
\* have appended an entry, the second has left the file as it was
C25_Witness ==
  /\ Len(checks) = 3
  /\ checks[1].before.kind = "list" /\ checks[1].before.entries # << >>
  /\ \A i \in 1..3 : checks[i].exit_code = 0 /\ checks[i].name = "default"
  /\ checks[1].saved /\ ~checks[2].saved /\ checks[3].saved
  /\ Len(EntriesOf(history_file)) = Len(checks[1].before.entries) + 2

====
